---- MODULE Spec2Model ----
(***************************************************************************)
(* PlannerMap (src/app.js): the dependency graph, the cost/time rollup,    *)
(* the node sizing, the radial layout and the node drag, as a state        *)
(* machine.                                                                *)
(*                                                                         *)
(* Numbers.  Lengths and coordinates are fixed-point integers in units of  *)
(* 1/Unit pixel; Math.cos and Math.sin are the tables CosOf and SinOf,     *)
(* rounded to 1/Unit.  Estimates (cost, hours) are plain naturals.         *)
(*                                                                         *)
(* Ids.  crypto.randomUUID() is a fresh natural.  Absent is an id that no  *)
(* node carries: a link end that names it is a dangling reference.         *)
(***************************************************************************)
EXTENDS Integers, Sequences, FiniteSets, TLC

VARIABLES
    nodes,          \* state.nodes: sequence of node records
    links,          \* state.links: sequence of [id, from, to]
    storage,        \* localStorage[STORAGE_KEY]: the model last saved, or Null
    selectedNodeId, \* selectedNodeId (NullId for null)
    nextId,         \* the next id crypto.randomUUID() returns
    totalsById,     \* the map the last computeTotals pass returned
    threw,          \* the last pass ended in an exception (call stack exhausted)
    rendered,       \* the render() call that ends the script (line 1150) has run
    nodeSizes,      \* nodeSizes of the last render: id -> radius
    positions,      \* layoutCache.positions: id -> position
    handlerPosition,\* the position each node element's handlers closed over (line 533)
    viewState,      \* viewState: [x, y, scale]
    isDragging,     \* a pan of the viewport is in progress
    dragStart,      \* client point of the mousedown that began the pan
    dragOrigin,     \* viewState when the pan began
    isNodeDragging, \* a node drag is in progress
    draggedNodeId,  \* id of the dragged node (NullId for null)
    dragOffset,     \* closed-over node position minus the map point of the mousedown
    didDragNode,    \* the drag went beyond the 2px threshold
    draggedSubtreeIds,  \* collectDescendants(dragged node) at the mousedown
    dragStartPositions, \* id -> position at the mousedown
    pointer,        \* client point of the mouse (where the last mouse event happened)
    pressedAt,      \* client point of the last mousedown on a node
    lastEvent,      \* name of the handler that ran last
    events,         \* number of user events handled so far
    pathEnds,       \* the arguments of a call of buildLinkPath: <<from, to>>, or Null
    linkPath,       \* the path that call returned, or Null
    linkOptions,    \* the option values of the two selects of the link dialog
    modalOpen       \* the link dialog is open

modelVars == <<nodes, links, storage, selectedNodeId, nextId>>
renderVars == <<totalsById, threw, rendered, nodeSizes, positions, handlerPosition>>
viewVars == <<viewState, isDragging, dragStart, dragOrigin>>
dragVars == <<isNodeDragging, draggedNodeId, dragOffset, didDragNode, draggedSubtreeIds,
              dragStartPositions>>
userVars == <<pointer, pressedAt, lastEvent, events>>
pathVars == <<pathEnds, linkPath>>
modalVars == <<linkOptions, modalOpen>>

vars == <<modelVars, renderVars, viewVars, dragVars, userVars, pathVars, modalVars>>

----------------------------------------------------------------------------
(* Bounds of the model *)

\* nodes + links of a stored model that loadState may return
MaxGraphSize == 5

\* call-stack frames available to the recursion of totalFor: more than the
\* deepest recursion a graph within MaxGraphSize can need when the cycle
\* guard works (one frame per link of a simple path, plus two)
StackLimit == MaxGraphSize + 2

----------------------------------------------------------------------------
(* Values *)

Null == <<>>                     \* null / undefined for a position
Absent == 0                      \* an id carried by no node
Pos(x, y) == <<x, y>>

STATUS_OPTIONS == {"Considering", "Shelved", "Committed", "In Progress", "Complete"}

\* the statuses a stored model is drawn from: the code tells Shelved from
\* the four others and nothing else
StatusChoices == {"Considering", "Shelved"}

Zero == [cost |-> 0, time |-> 0]

EmptyMap == [k \in {} |-> Null]

Put(m, k, v) == [x \in (DOMAIN m) \cup {k} |-> IF x = k THEN v ELSE m[x]]

Range(s) == {s[i] : i \in DOMAIN s}

RECURSIVE Pow(_, _)
Pow(b, e) == IF e = 0 THEN 1 ELSE b * Pow(b, e - 1)

\* the estimates of the i-th node of a stored model, under profile p
ProfileCost(p, i) == IF p = 1 THEN 100 \div Pow(2, i - 1) ELSE Pow(3, i - 1)
ProfileTime(p, i) == IF p = 1 THEN i ELSE (i % 3)
Profiles == {1, 2}

NodeIds(ns) == {ns[i].id : i \in DOMAIN ns}

----------------------------------------------------------------------------
(* buildGraph *)

\* the bucket of a Map of arrays filled by one forEach over the links
RECURSIVE Bucket(_, _, _, _)
\* unshift in place of push
BucketNewestFirst(ls, key, isFrom, i) ==
    IF i > Len(ls) THEN <<>>
    ELSE IF (IF isFrom THEN ls[i].from ELSE ls[i].to) = key
         THEN Bucket(ls, key, isFrom, i + 1) \o <<(IF isFrom THEN ls[i].to ELSE ls[i].from)>>
         ELSE Bucket(ls, key, isFrom, i + 1)

Bucket(ls, key, isFrom, i) ==
    IF i > Len(ls) THEN <<>>
    ELSE IF (IF isFrom THEN ls[i].from ELSE ls[i].to) = key
         THEN <<(IF isFrom THEN ls[i].to ELSE ls[i].from)>> \o Bucket(ls, key, isFrom, i + 1)
         ELSE Bucket(ls, key, isFrom, i + 1)

buildGraph(ns, ls) ==
    [ nodesById   |-> [id \in NodeIds(ns) |->
                         (CHOOSE i \in DOMAIN ns : ns[i].id = id /\
                              \A j \in DOMAIN ns : ns[j].id = id => j <= i) ] ,
      childrenMap |-> [f \in {ls[i].from : i \in DOMAIN ls} |-> Bucket(ls, f, TRUE, 1)],
      incomingMap |-> [t \in {ls[i].to : i \in DOMAIN ls} |-> Bucket(ls, t, FALSE, 1)] ]

\* (map.get(id) || [])
GetList(m, id) == IF id \in DOMAIN m THEN m[id] ELSE <<>>

----------------------------------------------------------------------------
(* computeTotals *)

\* totalFor(nodeId, trail) with the memo table threaded through; depth is the
\* number of totalFor frames on the call stack.  Result: the memo after the
\* call, the totals returned, and whether the call stack was exhausted.
RECURSIVE totalFor(_, _, _, _, _, _)
RECURSIVE sumChildren(_, _, _, _, _, _, _, _)

\* line 176: the nodes whose total is {0, 0} outright
isZeroNodeOrBelowShelved(ns, g, nodeId) ==
    \/ nodeId \notin DOMAIN g.nodesById
    \/ ns[g.nodesById[nodeId]].status = "Shelved"
    \/ \E i \in DOMAIN ns : /\ ns[i].status = "Shelved"
                            /\ nodeId \in Range(GetList(g.childrenMap, ns[i].id))

isZeroNodeAbsentOnly(ns, g, nodeId) == nodeId \notin DOMAIN g.nodesById

isZeroNode(ns, g, nodeId) ==
    nodeId \notin DOMAIN g.nodesById \/ ns[g.nodesById[nodeId]].status = "Shelved"

\* line 181: the cycle guard
onTrailNever(trail, nodeId) == FALSE

onTrail(trail, nodeId) == nodeId \in trail

\* lines 192-193: a child's totals added to the running sums
addTotalsCostOnly(acc, childTotals) ==
    [cost |-> acc.cost + childTotals.cost, time |-> acc.time]

addTotalsTimeOnly(acc, childTotals) ==
    [cost |-> acc.cost, time |-> acc.time + childTotals.time]

addTotals(acc, childTotals) ==
    [cost |-> acc.cost + childTotals.cost, time |-> acc.time + childTotals.time]

totalFor(ns, g, memo, nodeId, trail, depth) ==
    IF depth > StackLimit THEN [memo |-> memo, totals |-> Zero, threw |-> TRUE]
    ELSE IF nodeId \in DOMAIN memo THEN [memo |-> memo, totals |-> memo[nodeId], threw |-> FALSE]
    ELSE IF isZeroNode(ns, g, nodeId)
    THEN [memo |-> Put(memo, nodeId, Zero), totals |-> Zero, threw |-> FALSE]
    ELSE IF onTrail(trail, nodeId) THEN [memo |-> memo, totals |-> Zero, threw |-> FALSE]
    ELSE LET node == ns[g.nodesById[nodeId]]
             r == sumChildren(ns, g, memo, GetList(g.childrenMap, nodeId), 1,
                              trail \cup {nodeId}, depth,
                              [cost |-> node.estimatedCost, time |-> node.estimatedTime])
         IN IF r.threw THEN r
            ELSE [memo |-> Put(r.memo, nodeId, r.totals), totals |-> r.totals, threw |-> FALSE]

\* the forEach over childrenMap.get(nodeId) inside totalFor, from child i on
sumChildren(ns, g, memo, children, i, nextTrail, depth, acc) ==
    IF i > Len(children) THEN [memo |-> memo, totals |-> acc, threw |-> FALSE]
    ELSE LET c == totalFor(ns, g, memo, children[i], nextTrail, depth + 1)
         IN IF c.threw THEN c
            ELSE sumChildren(ns, g, c.memo, children, i + 1, nextTrail, depth,
                             addTotals(acc, c.totals))

\* the state.nodes.forEach that fills totalsById, from node i on
RECURSIVE totalsLoop(_, _, _, _, _)
totalsLoop(ns, g, memo, i, out) ==
    IF i > Len(ns) THEN [totals |-> out, threw |-> FALSE]
    ELSE LET r == totalFor(ns, g, memo, ns[i].id, {}, 1)
         IN IF r.threw THEN [totals |-> out, threw |-> TRUE]
            ELSE totalsLoop(ns, g, r.memo, i + 1, Put(out, ns[i].id, r.totals))

computeTotals(ns, ls) == totalsLoop(ns, buildGraph(ns, ls), EmptyMap, 1, EmptyMap)

----------------------------------------------------------------------------
(* Fixed-point numbers and the trigonometric table *)

Unit == 1000                     \* one pixel

\* line 4-8: NODE_RADIUS_RANGE[1] = max(240, 190) / 2, ROOT_NODE_RADIUS = 3 times that
ROOT_NODE_RADIUS == (((IF 240 > 190 THEN 240 ELSE 190) * Unit) \div 2) * 3
ESTIMATED_RATE == 100

\* mapViewport.getBoundingClientRect(): the viewport does not move or resize
ViewportRect == [left |-> 0, top |-> 0, width |-> 1200 * Unit, height |-> 800 * Unit]

\* CosTable[n][j + 1] = Math.cos(2 * PI * j / (4 * n)), to 1/Unit
CosTable ==
  <<
    <<1000, 0, -1000, 0>>,
    <<1000, 707, 0, -707, -1000, -707, 0, 707>>,
    <<1000, 866, 500, 0, -500, -866, -1000, -866, -500, 0, 500, 866>>,
    <<1000, 924, 707, 383, 0, -383, -707, -924, -1000, -924, -707, -383, 0, 383, 707, 924>>,
    <<1000, 951, 809, 588, 309, 0, -309, -588, -809, -951, -1000, -951, -809, -588, -309, 0, 309, 588, 809, 951>>,
    <<1000, 966, 866, 707, 500, 259, 0, -259, -500, -707, -866, -966, -1000, -966, -866, -707, -500, -259, 0, 259, 500, 707, 866, 966>>,
    <<1000, 975, 901, 782, 623, 434, 223, 0, -223, -434, -623, -782, -901, -975, -1000, -975, -901, -782, -623, -434, -223, 0, 223, 434, 623, 782, 901, 975>>,
    <<1000, 981, 924, 831, 707, 556, 383, 195, 0, -195, -383, -556, -707, -831, -924, -981, -1000, -981, -924, -831, -707, -556, -383, -195, 0, 195, 383, 556, 707, 831, 924, 981>>
  >>

\* cosine and sine of the angle 2 * PI * j / (4 * n), j any integer
CosOf(n, j) == CosTable[n][((j + 8 * n) % (4 * n)) + 1]
SinOf(n, j) == CosOf(n, j - n)

\* center + (cos, sin)(angle) * radius
PointOnCircle(center, n, j, radius) ==
    Pos(center[1] + ((CosOf(n, j) * radius) \div Unit),
        center[2] + ((SinOf(n, j) * radius) \div Unit))

Max2(a, b) == IF a > b THEN a ELSE b
SeqMax(s) == CHOOSE m \in Range(s) : \A x \in Range(s) : x <= m
SeqMin(s) == CHOOSE m \in Range(s) : \A x \in Range(s) : m <= x

RECURSIVE FilterSeq(_, _, _)
FilterSeq(s, Keep(_), i) ==
    IF i > Len(s) THEN <<>>
    ELSE IF Keep(s[i]) THEN <<s[i]>> \o FilterSeq(s, Keep, i + 1)
         ELSE FilterSeq(s, Keep, i + 1)

----------------------------------------------------------------------------
(* getRootId, and the node sizing of render *)

NullId == -1                     \* null for an id

IdsOf(ns) == [i \in DOMAIN ns |-> ns[i].id]

\* state.nodes.filter((node) => !(incomingMap.get(node.id) || []).length), as ids
RootIds(ns, incomingMap) ==
    FilterSeq(IdsOf(ns), LAMBDA id : Len(GetList(incomingMap, id)) = 0, 1)

getRootId(ns, incomingMap) ==
    LET roots == RootIds(ns, incomingMap)
    IN IF Len(roots) > 0 THEN roots[1]
       ELSE IF Len(ns) > 0 THEN ns[1].id
       ELSE NullId

\* nodeSizes.get(id)?.radius || fallback
RadiusOr(sizes, id, fallback) ==
    IF id \in DOMAIN sizes /\ sizes[id] # 0 THEN sizes[id] ELSE fallback

estimateFor(totals, nodeId) ==
    LET t == IF nodeId \in DOMAIN totals THEN totals[nodeId] ELSE Zero
    IN t.cost + t.time * ESTIMATED_RATE

\* the radius applySiblingSizing gives the child at index i (lines 478-485)
siblingRadius(parentRadius, values, i) ==
    LET maxChildRadius == (parentRadius * 75) \div 100
        minChildRadius == Max2((parentRadius * 35) \div 100, 36 * Unit)
        minValue == SeqMin(values)
        maxValue == SeqMax(values)
        scaleValue == IF maxValue # minValue
                      THEN ((values[i] - minValue) * Unit) \div (maxValue - minValue)
                      ELSE IF Len(values) = 1 THEN Unit ELSE Unit \div 2
    IN minChildRadius + (((maxChildRadius - minChildRadius) * scaleValue) \div Unit)

RECURSIVE setSiblingSizes(_, _, _, _, _)
setSiblingSizes(sizes, parentRadius, values, childIds, i) ==
    IF i > Len(childIds) THEN sizes
    ELSE setSiblingSizes(Put(sizes, childIds[i], siblingRadius(parentRadius, values, i)),
                         parentRadius, values, childIds, i + 1)

applySiblingSizing(sizes, totals, parentId, childIds) ==
    IF Len(childIds) = 0 THEN sizes
    ELSE setSiblingSizes(sizes, RadiusOr(sizes, parentId, ROOT_NODE_RADIUS),
                         [i \in DOMAIN childIds |-> estimateFor(totals, childIds[i])],
                         childIds, 1)

\* children.forEach: the children not seen yet, in order, each once
RECURSIVE Unseen(_, _, _)
Unseen(children, seen, i) ==
    IF i > Len(children) THEN <<>>
    ELSE IF children[i] \in seen THEN Unseen(children, seen, i + 1)
         ELSE <<children[i]>> \o Unseen(children, seen \cup {children[i]}, i + 1)

\* the while loop of lines 496-506
RECURSIVE sizingBfs(_, _, _, _, _)
sizingBfs(childrenMap, totals, queue, seen, sizes) ==
    IF Len(queue) = 0 THEN sizes
    ELSE LET parentId == Head(queue)
             children == GetList(childrenMap, parentId)
             fresh == Unseen(children, seen, 1)
         IN sizingBfs(childrenMap, totals, Tail(queue) \o fresh, seen \cup Range(fresh),
                      applySiblingSizing(sizes, totals, parentId, children))

\* lines 448-525 of render: the radius of every node (width = height = 2 * radius)
computeSizes(ns, ls, totals) ==
    LET g == buildGraph(ns, ls)
        rootId == getRootId(ns, g.incomingMap)
        atRoot == IF rootId # NullId THEN Put(EmptyMap, rootId, ROOT_NODE_RADIUS) ELSE EmptyMap
        queue == IF rootId # NullId THEN <<rootId>> ELSE <<>>
        afterBfs == sizingBfs(g.childrenMap, totals, queue, Range(queue), atRoot)
        extraRoots == FilterSeq(RootIds(ns, g.incomingMap), LAMBDA id : id # rootId, 1)
        afterExtra == IF Len(extraRoots) > 0
                      THEN applySiblingSizing(afterBfs, totals,
                               IF rootId # NullId THEN rootId ELSE extraRoots[1], extraRoots)
                      ELSE afterBfs
    IN [id \in (DOMAIN afterExtra) \cup NodeIds(ns) |->
          IF id \in DOMAIN afterExtra THEN afterExtra[id] ELSE (ROOT_NODE_RADIUS * 55) \div 100]

----------------------------------------------------------------------------
(* computeLayout *)

ViewportCenter == Pos(ViewportRect.width \div 2, ViewportRect.height \div 2)

\* lines 216-221: cached positions of ids that are no longer nodes are dropped
purgePositions(ns, posMap) ==
    [id \in (DOMAIN posMap) \cap NodeIds(ns) |-> posMap[id]]

\* lines 231-236: the fallback position of the node at (0-based) index
seedPosition(index, nodeCount) ==
    PointOnCircle(ViewportCenter, nodeCount, 4 * index, (180 + (index % 5) * 20) * Unit)

\* lines 223-239: pinned positions are copied in, missing positions are seeded
RECURSIVE seedLoop(_, _, _)
seedLoop(ns, posMap, i) ==
    IF i > Len(ns) THEN posMap
    ELSE LET node == ns[i]
         IN IF node.positionLocked /\ node.position # Null
            THEN seedLoop(ns, Put(posMap, node.id, node.position), i + 1)
            ELSE IF node.id \notin DOMAIN posMap
            THEN seedLoop(ns, Put(posMap, node.id,
                                  seedPosition(i - 1, Max2(Len(ns), 1))), i + 1)
            ELSE seedLoop(ns, posMap, i + 1)

\* nodesById.get(id)?.positionLocked
IsLocked(ns, nodesById, id) == id \in DOMAIN nodesById /\ ns[nodesById[id]].positionLocked

\* lines 241-247: the canonical root goes to the viewport center unless locked
centerRootUnlessCached(ns, nodesById, rootId, posMap) ==
    IF rootId # NullId /\ rootId \in DOMAIN nodesById /\ ~IsLocked(ns, nodesById, rootId)
       /\ rootId \notin DOMAIN posMap
    THEN Put(posMap, rootId, ViewportCenter)
    ELSE posMap

centerRoot(ns, nodesById, rootId, posMap) ==
    IF rootId # NullId /\ rootId \in DOMAIN nodesById /\ ~IsLocked(ns, nodesById, rootId)
    THEN Put(posMap, rootId, ViewportCenter)
    ELSE posMap

\* lines 258-267: the extra roots, from index i on, around the root
RECURSIVE placeExtraRoots(_, _, _, _, _, _, _)
placeExtraRoots(ns, nodesById, extraRoots, rootPosition, extraRadius, posMap, i) ==
    IF i > Len(extraRoots) THEN posMap
    ELSE IF IsLocked(ns, nodesById, extraRoots[i])
    THEN placeExtraRoots(ns, nodesById, extraRoots, rootPosition, extraRadius, posMap, i + 1)
    ELSE placeExtraRoots(ns, nodesById, extraRoots, rootPosition, extraRadius,
             Put(posMap, extraRoots[i],
                 PointOnCircle(rootPosition, Len(extraRoots),
                               4 * (i - 1) - Len(extraRoots), extraRadius)),
             i + 1)

\* lines 286-288: the children the layout may place
isAutoChildAlways(ns, nodesById, childId) == TRUE

isAutoChild(ns, nodesById, childId) == ~IsLocked(ns, nodesById, childId)

\* lines 297-303: the unlocked children, from index i on, around the parent
RECURSIVE placeChildren(_, _, _, _, _)
placeChildren(autoChildren, parentPos, distance, posMap, i) ==
    IF i > Len(autoChildren) THEN posMap
    ELSE placeChildren(autoChildren, parentPos, distance,
             Put(posMap, autoChildren[i],
                 PointOnCircle(parentPos, Len(autoChildren),
                               4 * (i - 1) - Len(autoChildren), distance)),
             i + 1)

\* lines 279-312: the breadth-first descent
RECURSIVE layoutBfs(_, _, _, _, _, _)
layoutBfs(ns, g, sizes, queue, seen, posMap) ==
    IF Len(queue) = 0 THEN posMap
    ELSE LET parentId == Head(queue)
         IN IF parentId \notin DOMAIN posMap
            THEN layoutBfs(ns, g, sizes, Tail(queue), seen, posMap)
            ELSE LET parentPos == posMap[parentId]
                     children == GetList(g.childrenMap, parentId)
                     autoChildren == FilterSeq(children,
                                        LAMBDA c : isAutoChild(ns, g.nodesById, c), 1)
                     parentRadius == RadiusOr(sizes, parentId, ROOT_NODE_RADIUS)
                     childRadii == [i \in DOMAIN autoChildren |->
                                      RadiusOr(sizes, autoChildren[i], parentRadius \div 2)]
                     maxChildRadius == SeqMax(childRadii \o <<0>>)
                     distance == parentRadius + maxChildRadius + 90 * Unit
                     placed == IF Len(autoChildren) > 0
                               THEN placeChildren(autoChildren, parentPos, distance, posMap, 1)
                               ELSE posMap
                     fresh == Unseen(children, seen, 1)
                 IN layoutBfs(ns, g, sizes, Tail(queue) \o fresh,
                              seen \cup Range(fresh), placed)

\* computeLayout(nodeSizes), with layoutCache.positions passed in and returned
computeLayout(ns, ls, sizes, cached) ==
    LET g == buildGraph(ns, ls)
        seeded == seedLoop(ns, purgePositions(ns, cached), 1)
        rootId == getRootId(ns, g.incomingMap)
        rooted == centerRoot(ns, g.nodesById, rootId, seeded)
        extraRoots == FilterSeq(RootIds(ns, g.incomingMap), LAMBDA id : id # rootId, 1)
        withExtra ==
            IF rootId # NullId /\ Len(extraRoots) > 0
            THEN placeExtraRoots(ns, g.nodesById, extraRoots,
                     IF rootId \in DOMAIN rooted THEN rooted[rootId] ELSE ViewportCenter,
                     (RadiusOr(sizes, rootId, ROOT_NODE_RADIUS) * 22) \div 10,
                     rooted, 1)
            ELSE rooted
        queue == IF rootId # NullId THEN <<rootId>> ELSE <<>>
    IN layoutBfs(ns, g, sizes, queue, Range(queue), withExtra)

----------------------------------------------------------------------------
(* Stored models *)

RECURSIVE SeqsUpTo(_, _)
SeqsUpTo(S, n) ==
    IF n = 0 THEN {<<>>}
    ELSE LET shorter == SeqsUpTo(S, n - 1)
         IN shorter \cup {Append(s, x) : s \in {t \in shorter : Len(t) = n - 1}, x \in S}

\* the node at index i of a stored model
StoredNode(i, p, status) ==
    [ id |-> i, estimatedCost |-> ProfileCost(p, i), estimatedTime |-> ProfileTime(p, i),
      status |-> status, positionLocked |-> FALSE, position |-> Null ]

WithLinkIds(ends) == [i \in DOMAIN ends |-> [id |-> i, from |-> ends[i][1], to |-> ends[i][2]]]

\* the mouse rests here when the page opens
PointerHome == Pos(40 * Unit, 40 * Unit)

\* lines 31-50: the script's variables before its first render, given the
\* model loadState returned
ScriptStart ==
    /\ selectedNodeId = (IF Len(nodes) > 0 THEN nodes[1].id ELSE NullId)
    /\ nextId = Len(nodes) + Len(links) + 1
    /\ totalsById = EmptyMap
    /\ threw = FALSE
    /\ rendered = FALSE
    /\ nodeSizes = EmptyMap
    /\ positions = EmptyMap
    /\ handlerPosition = EmptyMap
    /\ viewState = [x |-> 0, y |-> 0, scale |-> Unit]
    /\ isDragging = FALSE
    /\ dragStart = Pos(0, 0)
    /\ dragOrigin = Pos(0, 0)
    /\ isNodeDragging = FALSE
    /\ draggedNodeId = NullId
    /\ dragOffset = Pos(0, 0)
    /\ didDragNode = FALSE
    /\ draggedSubtreeIds = {}
    /\ dragStartPositions = EmptyMap
    /\ pointer = PointerHome
    /\ pressedAt = PointerHome
    /\ lastEvent = "load"
    /\ events = 0
    /\ linkOptions = {}
    /\ modalOpen = FALSE

\* loadState found this model in localStorage
Stored == storage = [nodes |-> nodes, links |-> links]

\* no call of buildLinkPath is followed
NoLinkCall == pathEnds = Null /\ linkPath = Null

\* Stored models for the rollup: k nodes in list order 1..k (any other order is
\* this one with the ids renamed), any statuses, and any list of links among
\* the nodes and the absent id.
RollupInit ==
    \E k \in 1..MaxGraphSize :
      \E p \in Profiles :
        \E st \in [1..k -> StatusChoices] :
          \E ends \in SeqsUpTo((1..k) \X ((1..k) \cup {Absent}), MaxGraphSize - k) :
            /\ nodes = [i \in 1..k |-> StoredNode(i, p, st[i])]
            /\ links = WithLinkIds(ends)
            /\ Stored
            /\ ScriptStart
            /\ NoLinkCall

\* computeTotals(), as called by render and by updateSelectedNodeDisplay
ComputeTotalsPass ==
    /\ totalsById = EmptyMap
    /\ LET r == computeTotals(nodes, links)
       IN /\ totalsById' = r.totals
          /\ threw' = r.threw
    /\ UNCHANGED <<pathVars, modalVars, modelVars, rendered, nodeSizes, positions, handlerPosition, viewVars,
                   dragVars, userVars>>

SpecRollup == RollupInit /\ [][ComputeTotalsPass]_vars

----------------------------------------------------------------------------
(* render *)

\* line 533: positions.get(node.id) || { x: 0, y: 0 }, for every node
ClosedOver(ns, laidOut) ==
    [id \in NodeIds(ns) |-> IF id \in DOMAIN laidOut THEN laidOut[id] ELSE Pos(0, 0)]

\* render() on the model (ns, ls): totals, sizes, layout (line 527), the node
\* elements with their handlers, and the second layout of
\* startLayoutAnimation (line 362)
renderOn(ns, ls) ==
    \E t \in {computeTotals(ns, ls)} :
      \E sizes \in {computeSizes(ns, ls, t.totals)} :
        \E first \in {computeLayout(ns, ls, sizes, positions)} :
          \E second \in {computeLayout(ns, ls, sizes, first)} :
            IF t.threw
            THEN /\ threw' = TRUE
                 /\ UNCHANGED <<totalsById, rendered, nodeSizes, positions, handlerPosition>>
            ELSE /\ totalsById' = t.totals
                 /\ nodeSizes' = sizes
                 /\ handlerPosition' = ClosedOver(ns, first)
                 /\ positions' = second
                 /\ rendered' = TRUE
                 /\ threw' = threw

\* render() with the model as it is
Render ==
    /\ renderOn(nodes, links)
    /\ UNCHANGED <<pathVars, modalVars, modelVars, viewVars, dragVars, userVars>>

\* the position a stored model holds for the locked node at index i
PinnedAt(i) == Pos((100 + 40 * i) * Unit, (700 - 150 * i) * Unit)

\* link ends among k nodes: a link may enter the absent id, or also leave it
EndsInto(k) == (1..k) \X ((1..k) \cup {Absent})
AllEnds(k) == ((1..k) \cup {Absent}) \X ((1..k) \cup {Absent})

\* the link lists of a stored model of k nodes: up to MaxGraphSize - k links
\* that leave a node, or one link fewer with links that leave the absent id too
StoredEnds(k) ==
    SeqsUpTo(EndsInto(k), MaxGraphSize - k)
        \cup (IF MaxGraphSize - k >= 1 THEN SeqsUpTo(AllEnds(k), MaxGraphSize - k - 1) ELSE {})

\* Stored models for the sizing: any statuses, any links (dangling ones too),
\* no locked node.
SizingInit ==
    \E k \in 1..MaxGraphSize :
      \E p \in Profiles :
        \E st \in [1..k -> StatusChoices] :
          \E ends \in StoredEnds(k) :
            /\ nodes = [i \in 1..k |-> StoredNode(i, p, st[i])]
            /\ links = WithLinkIds(ends)
            /\ Stored
            /\ ScriptStart
            /\ NoLinkCall

\* Stored models for the layout: any set of locked nodes (each with its pinned
\* position), any links (dangling ones too), nothing Shelved.
LayoutInit ==
    \E k \in 1..MaxGraphSize :
      \E locked \in SUBSET (1..k) :
        \E ends \in StoredEnds(k) :
          /\ nodes = [i \in 1..k |->
                        IF i \in locked
                        THEN [StoredNode(i, 1, "Considering") EXCEPT
                                 !.positionLocked = TRUE, !.position = PinnedAt(i)]
                        ELSE StoredNode(i, 1, "Considering")]
          /\ links = WithLinkIds(ends)
          /\ Stored
          /\ ScriptStart
          /\ NoLinkCall

SpecSizing == SizingInit /\ [][Render]_vars

SpecLayout == LayoutInit /\ [][Render]_vars

\* a hierarchy three levels deep: the root with two children, two children
\* below the first of them, and one node below the first of those
DeepEnds == <<<<1, 2>>, <<1, 3>>, <<2, 4>>, <<2, 5>>, <<4, 6>>>>

\* Stored models for the sizing at depth: that hierarchy with any statuses and
\* either estimate profile, no locked node.
DeepSizingInit ==
    \E p \in Profiles :
      \E st \in [1..6 -> StatusChoices] :
        /\ nodes = [i \in 1..6 |-> StoredNode(i, p, st[i])]
        /\ links = WithLinkIds(DeepEnds)
        /\ Stored
        /\ ScriptStart
        /\ NoLinkCall

SpecDeepSizing == DeepSizingInit /\ [][Render]_vars

----------------------------------------------------------------------------
(* The page: the event handlers *)

\* user events one session handles after the page has opened
MaxEvents == 5

\* client points the mouse visits: PointerHome, a point within 2px of it on
\* both axes, and a point farther away
Pointers == {PointerHome, Pos(41 * Unit, 38 * Unit), Pos(47 * Unit, 44 * Unit)}

\* the layout's tables cover this many nodes
MaxNodes == Len(CosTable)

VAdd(a, b) == Pos(a[1] + b[1], a[2] + b[2])
VSub(a, b) == Pos(a[1] - b[1], a[2] - b[2])
Abs(x) == IF x < 0 THEN -x ELSE x

\* the node with this id
FindNode(ns, id) == ns[CHOOSE i \in DOMAIN ns : ns[i].id = id]

\* JSON.stringify(state) into localStorage
saveState(ns, ls) == storage' = [nodes |-> ns, links |-> ls]

\* the while loop of collectDescendants
RECURSIVE collectLoop(_, _, _)
collectLoop(childrenMap, queue, visited) ==
    IF Len(queue) = 0 THEN visited
    ELSE LET currentId == Head(queue)
         IN IF currentId \in visited
            THEN collectLoop(childrenMap, Tail(queue), visited)
            ELSE collectLoop(childrenMap,
                     Tail(queue) \o FilterSeq(GetList(childrenMap, currentId),
                                        LAMBDA childId : childId \notin visited \cup {currentId}, 1),
                     visited \cup {currentId})

\* the queue starts with the children in place of rootId
collectDescendantsBelow(rootId, childrenMap) ==
    collectLoop(childrenMap, GetList(childrenMap, rootId), {})

collectDescendants(rootId, childrenMap) == collectLoop(childrenMap, <<rootId>>, {})

\* screenToMapPoint, and lines 596-598
screenToMapPoint(client) ==
    Pos(((client[1] - ViewportRect.left - viewState.x) * Unit) \div viewState.scale,
        ((client[2] - ViewportRect.top - viewState.y) * Unit) \div viewState.scale)

\* one more user event, handled by the named handler
Handled(name) ==
    /\ rendered
    /\ events < MaxEvents
    /\ events' = events + 1
    /\ lastEvent' = name

\* lines 606-616: cachedPosition || fallbackPosition of every id of the
\* subtree, and the closed-over position for the pressed node without one
startPositions(ids, pressedId) ==
    LET startOf(id) == IF id \in DOMAIN positions THEN positions[id]
                       ELSE IF id \in NodeIds(nodes) THEN FindNode(nodes, id).position
                       ELSE Null
        withStart == {id \in ids : startOf(id) # Null}
    IN [id \in withStart \cup {pressedId} |->
          IF id \in withStart THEN startOf(id) ELSE handlerPosition[pressedId]]

\* mousedown (button 0) on the element of the node id
NodeMouseDown(id) ==
    /\ Handled("node mousedown")
    /\ id \in DOMAIN handlerPosition
    /\ selectedNodeId' = id
    /\ isNodeDragging' = TRUE
    /\ draggedNodeId' = id
    /\ didDragNode' = FALSE
    /\ dragOffset' = VSub(handlerPosition[id], screenToMapPoint(pointer))
    /\ LET subtree == collectDescendants(id, buildGraph(nodes, links).childrenMap)
       IN /\ draggedSubtreeIds' = subtree
          /\ dragStartPositions' = startPositions(subtree, id)
    /\ pressedAt' = pointer
    /\ UNCHANGED <<pathVars, modalVars, nodes, links, storage, nextId, renderVars, viewVars, pointer>>

\* lines 1005-1007
idsToMove(nodeId) == IF draggedSubtreeIds # {} THEN draggedSubtreeIds ELSE {nodeId}

\* lines 1021-1022: the node of the model, moved
moveAndToggleLock(node, movedPosition) ==
    [node EXCEPT !.position = movedPosition, !.positionLocked = ~node.positionLocked]

moveAndLock(node, movedPosition) ==
    [node EXCEPT !.position = movedPosition, !.positionLocked = TRUE]

\* mousemove on the viewport, at the client point
MouseMove(client) ==
    /\ Handled("mousemove")
    /\ pointer' = client
    /\ IF isNodeDragging /\ draggedNodeId # NullId
       THEN IF draggedNodeId \notin NodeIds(nodes)
            THEN UNCHANGED <<nodes, positions, didDragNode, viewState>>
            ELSE LET node == FindNode(nodes, draggedNodeId)
                     nextPosition == VAdd(screenToMapPoint(client), dragOffset)
                     rootStart == IF node.id \in DOMAIN dragStartPositions
                                  THEN dragStartPositions[node.id] ELSE node.position
                     delta == IF rootStart # Null THEN VSub(nextPosition, rootStart)
                              ELSE Pos(0, 0)
                     moved == {id \in idsToMove(node.id) :
                                 id \in DOMAIN dragStartPositions /\ id \in NodeIds(nodes)}
                     movedPosition(id) == VAdd(dragStartPositions[id], delta)
                 IN /\ didDragNode' = (didDragNode \/ Abs(delta[1]) > 2 * Unit
                                                   \/ Abs(delta[2]) > 2 * Unit)
                    /\ nodes' = [i \in DOMAIN nodes |->
                                   IF nodes[i].id \in moved
                                   THEN moveAndLock(nodes[i], movedPosition(nodes[i].id))
                                   ELSE nodes[i]]
                    /\ positions' = [id \in (DOMAIN positions) \cup moved |->
                                       IF id \in moved THEN movedPosition(id) ELSE positions[id]]
                    /\ UNCHANGED viewState
       ELSE /\ IF isDragging
               THEN viewState' = [viewState EXCEPT
                                     !.x = dragOrigin[1] + (client[1] - dragStart[1]),
                                     !.y = dragOrigin[2] + (client[2] - dragStart[2])]
               ELSE UNCHANGED viewState
            /\ UNCHANGED <<nodes, positions, didDragNode>>
    /\ UNCHANGED <<pathVars, modalVars, links, storage, selectedNodeId, nextId, totalsById, threw, rendered,
                   nodeSizes, handlerPosition, isDragging, dragStart, dragOrigin,
                   isNodeDragging, draggedNodeId, dragOffset, draggedSubtreeIds,
                   dragStartPositions, pressedAt>>

\* lines 1067-1070 and 1081-1084
endNodeDragKeepingStarts ==
    /\ isNodeDragging' = FALSE
    /\ draggedNodeId' = NullId
    /\ draggedSubtreeIds' = {}
    /\ UNCHANGED dragStartPositions

endNodeDrag ==
    /\ isNodeDragging' = FALSE
    /\ draggedNodeId' = NullId
    /\ draggedSubtreeIds' = {}
    /\ dragStartPositions' = EmptyMap

\* mouseup on the viewport
MouseUp ==
    /\ Handled("mouseup")
    /\ isDragging' = FALSE
    /\ IF isNodeDragging THEN saveState(nodes, links) ELSE UNCHANGED storage
    /\ endNodeDrag
    /\ UNCHANGED <<pathVars, modalVars, nodes, links, selectedNodeId, nextId, renderVars, viewState, dragStart,
                   dragOrigin, dragOffset, didDragNode, pointer, pressedAt>>

\* mouseleave of the viewport
MouseLeave ==
    /\ Handled("mouseleave")
    /\ isDragging' = FALSE
    /\ IF isNodeDragging
       THEN saveState(nodes, links) /\ endNodeDrag
       ELSE UNCHANGED <<storage, isNodeDragging, draggedNodeId, draggedSubtreeIds,
                        dragStartPositions>>
    /\ UNCHANGED <<pathVars, modalVars, nodes, links, selectedNodeId, nextId, renderVars, viewState, dragStart,
                   dragOrigin, dragOffset, didDragNode, pointer, pressedAt>>

\* mousedown (button 0) on the viewport outside every node element
ViewportMouseDown ==
    /\ Handled("viewport mousedown")
    /\ IF isNodeDragging
       THEN UNCHANGED <<isDragging, dragStart, dragOrigin>>
       ELSE /\ isDragging' = TRUE
            /\ dragStart' = pointer
            /\ dragOrigin' = Pos(viewState.x, viewState.y)
    /\ UNCHANGED <<pathVars, modalVars, modelVars, renderVars, viewState, dragVars, pointer, pressedAt>>

\* click on the element of the node id: the browser sends it after the
\* mouseup of the same press
NodeClick(id) ==
    /\ Handled("node click")
    /\ ~isNodeDragging
    /\ id \in DOMAIN handlerPosition
    /\ IF didDragNode
       THEN UNCHANGED <<selectedNodeId, renderVars>>
       ELSE selectedNodeId' = id /\ renderOn(nodes, links)
    /\ UNCHANGED <<pathVars, modalVars, nodes, links, storage, nextId, viewVars, dragVars, pointer, pressedAt>>

\* click that reaches the viewport (line 1140)
ViewportClick ==
    /\ Handled("viewport click")
    /\ ~isNodeDragging
    /\ selectedNodeId' = NullId
    /\ renderOn(nodes, links)
    /\ UNCHANGED <<pathVars, modalVars, nodes, links, storage, nextId, viewVars, dragVars, pointer, pressedAt>>

\* addNode({ parentId }), parentId = NullId for none
addNode(parentId) ==
    LET newNode == [ id |-> nextId, estimatedCost |-> 0, estimatedTime |-> 0,
                     status |-> "Considering", positionLocked |-> FALSE, position |-> Null ]
        ns == Append(nodes, newNode)
        ls == IF parentId # NullId
              THEN Append(links, [id |-> nextId + 1, from |-> parentId, to |-> newNode.id])
              ELSE links
    IN /\ Len(nodes) < MaxNodes
       /\ nodes' = ns
       /\ links' = ls
       /\ nextId' = nextId + (IF parentId # NullId THEN 2 ELSE 1)
       /\ selectedNodeId' = newNode.id
       /\ saveState(ns, ls)
       /\ renderOn(ns, ls)

\* the "add root" button (by mouse, or by keyboard during a drag)
AddRoot ==
    /\ Handled("add root")
    /\ addNode(NullId)
    /\ UNCHANGED <<pathVars, modalVars, viewVars, dragVars, pointer, pressedAt>>

\* the "add child" button
AddChild ==
    /\ Handled("add child")
    /\ IF selectedNodeId # NullId
       THEN addNode(selectedNodeId)
       ELSE UNCHANGED <<modelVars, renderVars>>
    /\ UNCHANGED <<pathVars, modalVars, viewVars, dragVars, pointer, pressedAt>>

\* lines 866-868: the links deleteNode keeps
keepsLinkLeavingOnly(link, id) == link.from # id

keepsLink(link, id) == link.from # id /\ link.to # id

\* deleteNode(), the "delete" button
DeleteNode ==
    /\ Handled("delete node")
    /\ IF selectedNodeId = NullId
       THEN UNCHANGED <<modelVars, renderVars>>
       ELSE LET ns == FilterSeq(nodes, LAMBDA n : n.id # selectedNodeId, 1)
                ls == FilterSeq(links, LAMBDA l : keepsLink(l, selectedNodeId), 1)
            IN /\ nodes' = ns
               /\ links' = ls
               /\ selectedNodeId' = (IF Len(ns) > 0 THEN ns[1].id ELSE NullId)
               /\ saveState(ns, ls)
               /\ renderOn(ns, ls)
               /\ UNCHANGED nextId
    /\ UNCHANGED <<pathVars, modalVars, viewVars, dragVars, pointer, pressedAt>>

\* lines 84-115: the model of a first visit
DefaultNodes ==
    << [ id |-> 1, estimatedCost |-> 12000, estimatedTime |-> 80, status |-> "Considering",
         positionLocked |-> FALSE, position |-> Null ],
       [ id |-> 2, estimatedCost |-> 800, estimatedTime |-> 12, status |-> "Committed",
         positionLocked |-> FALSE, position |-> Null ],
       [ id |-> 3, estimatedCost |-> 1500, estimatedTime |-> 25, status |-> "In Progress",
         positionLocked |-> FALSE, position |-> Null ] >>

\* a first visit (nothing stored)
Init ==
    /\ nodes = DefaultNodes
    /\ links = <<>>
    /\ storage = Null
    /\ ScriptStart
    /\ NoLinkCall

\* line 1150
Boot == ~rendered /\ Render

Next ==
    \/ Boot
    \/ \E id \in DOMAIN handlerPosition : NodeMouseDown(id)
    \/ \E client \in Pointers : MouseMove(client)
    \/ MouseUp
    \/ MouseLeave
    \/ ViewportMouseDown
    \/ \E id \in DOMAIN handlerPosition : NodeClick(id)
    \/ ViewportClick
    \/ AddRoot
    \/ AddChild
    \/ DeleteNode

Spec == Init /\ [][Next]_vars

----------------------------------------------------------------------------
(* The page: the link dialog, the connections list and the node form *)

\* showLinkModal(), the "link" button: both selects are filled with one option
\* per node
ShowLinkModal ==
    /\ Handled("show link modal")
    /\ linkOptions' = NodeIds(nodes)
    /\ modalOpen' = TRUE
    /\ UNCHANGED <<modelVars, renderVars, viewVars, dragVars, pointer, pressedAt, pathVars>>

\* hideLinkModal(), the dialog's "cancel" button
HideLinkModal ==
    /\ Handled("hide link modal")
    /\ modalOpen
    /\ modalOpen' = FALSE
    /\ UNCHANGED <<modelVars, renderVars, viewVars, dragVars, pointer, pressedAt, pathVars,
                   linkOptions>>

\* line 901: the test that lets createLink go on
mayLinkAny(dependentId, requiredId) == TRUE

mayLink(dependentId, requiredId) == dependentId # requiredId

\* createLink(), the dialog's "confirm" button, with the options chosen in the
\* two selects
CreateLink ==
    /\ Handled("create link")
    /\ modalOpen
    /\ IF linkOptions = {}
       THEN UNCHANGED <<modelVars, renderVars, modalOpen>>
       ELSE \E dependentId, requiredId \in linkOptions :
              IF ~mayLink(dependentId, requiredId)
              THEN UNCHANGED <<modelVars, renderVars, modalOpen>>
              ELSE LET ls == Append(links, [id |-> nextId, from |-> requiredId,
                                            to |-> dependentId])
                   IN /\ links' = ls
                      /\ nextId' = nextId + 1
                      /\ saveState(nodes, ls)
                      /\ modalOpen' = FALSE
                      /\ renderOn(nodes, ls)
                      /\ UNCHANGED <<nodes, selectedNodeId>>
    /\ UNCHANGED <<viewVars, dragVars, pointer, pressedAt, pathVars, linkOptions>>

\* lines 803-805: the links the connections list shows for the selected node
listedLinks ==
    IF selectedNodeId \in NodeIds(nodes)
    THEN {links[i].id : i \in {j \in DOMAIN links : links[j].from = selectedNodeId
                                                   \/ links[j].to = selectedNodeId}}
    ELSE {}

\* the "Remove" button of a link of the connections list (lines 825-829)
RemoveLink(linkId) ==
    /\ Handled("remove link")
    /\ linkId \in listedLinks
    /\ LET ls == FilterSeq(links, LAMBDA item : item.id # linkId, 1)
       IN /\ links' = ls
          /\ saveState(nodes, ls)
          /\ renderOn(nodes, ls)
    /\ UNCHANGED <<nodes, selectedNodeId, nextId, viewVars, dragVars, pointer, pressedAt,
                   pathVars, modalVars>>

\* a change of the status field of the node form: syncFormToState with
\* shouldRender (the other fields as the form shows them, unedited)
FormChange(status) ==
    /\ Handled("form change")
    /\ selectedNodeId \in NodeIds(nodes)
    /\ LET ns == [i \in DOMAIN nodes |->
                    IF nodes[i].id = selectedNodeId
                    THEN [nodes[i] EXCEPT !.status = status] ELSE nodes[i]]
       IN /\ nodes' = ns
          /\ saveState(ns, links)
          /\ renderOn(ns, links)
    /\ UNCHANGED <<links, selectedNodeId, nextId, viewVars, dragVars, pointer, pressedAt,
                   pathVars, modalVars>>

\* a stored model without links: the nodes of a first visit, the third one
\* locked where a drag left it
EditInit ==
    /\ nodes = [DefaultNodes EXCEPT ![3].positionLocked = TRUE, ![3].position = PinnedAt(3)]
    /\ links = <<>>
    /\ Stored
    /\ ScriptStart
    /\ NoLinkCall

EditNext ==
    \/ Boot
    \/ \E id \in DOMAIN handlerPosition : NodeClick(id)
    \/ AddRoot
    \/ AddChild
    \/ DeleteNode
    \/ ShowLinkModal
    \/ HideLinkModal
    \/ CreateLink
    \/ \E linkId \in listedLinks : RemoveLink(linkId)
    \/ \E status \in StatusChoices : FormChange(status)

\* the page with its editing handlers
SpecEdit == EditInit /\ [][EditNext]_vars

\* Stored models for the press of a node: any links (cycles, self-links,
\* duplicates and dangling ones too), nothing Shelved, no locked node.
PressInit ==
    \E k \in 1..MaxGraphSize :
      \E ends \in StoredEnds(k) :
        /\ nodes = [i \in 1..k |-> StoredNode(i, 1, "Considering")]
        /\ links = WithLinkIds(ends)
        /\ Stored
        /\ ScriptStart
        /\ NoLinkCall

\* the page opens on a stored model and nodes are pressed
SpecPress ==
    PressInit /\ [][Boot \/ \E id \in DOMAIN handlerPosition : NodeMouseDown(id)]_vars

----------------------------------------------------------------------------
(* buildLinkPath *)

\* the coordinates handed to buildLinkPath are fixed-point integers in units
\* of 1/PathUnit pixel (their squares and products stay within 32 bits)
PathUnit == 10

\* floor of the square root of n, sought between lo and hi
RECURSIVE SqrtBetween(_, _, _)
SqrtBetween(n, lo, hi) ==
    IF lo >= hi THEN lo
    ELSE LET mid == (lo + hi + 1) \div 2
         IN IF mid * mid <= n THEN SqrtBetween(n, mid, hi) ELSE SqrtBetween(n, lo, mid - 1)

\* line 320: Math.hypot(dx, dy), rounded down to 1/PathUnit pixel
hypot(dx, dy) == SqrtBetween(dx * dx + dy * dy, 0, Abs(dx) + Abs(dy))

\* line 324: distance > curveThreshold, decided on the exact distance
exceedsOrReaches(dx, dy, threshold) == dx * dx + dy * dy >= threshold * threshold

exceeds(dx, dy, threshold) == dx * dx + dy * dy > threshold * threshold

Min2(a, b) == IF a < b THEN a ELSE b

\* buildLinkPath(x1, y1, x2, y2): the path data as the command letter and the
\* points that follow the M
buildLinkPath(x1, y1, x2, y2) ==
    LET dx == x2 - x1
        dy == y2 - y1
        distance == hypot(dx, dy)
        curveThreshold == 140 * PathUnit
        midX == (x1 + x2) \div 2
        midY == (y1 + y2) \div 2
        curveIntensity == Min2(distance \div 3, 140 * PathUnit)
        \* normX * curveIntensity and normY * curveIntensity, rounded once
        offX == IF distance = 0 THEN 0 ELSE ((0 - dy) * curveIntensity) \div distance
        offY == IF distance = 0 THEN 0 ELSE (dx * curveIntensity) \div distance
    IN IF exceeds(dx, dy, curveThreshold)
       THEN [cmd |-> "Q", points |-> <<Pos(x1, y1), Pos(midX + offX, midY + offY), Pos(x2, y2)>>]
       ELSE [cmd |-> "L", points |-> <<Pos(x1, y1), Pos(x2, y2)>>]

\* the first endpoints tried, and the vectors from the first to the second:
\* none, short, of length exactly 140 (on an axis and 84-112-140), one
\* tenth of a pixel beyond 140, between 140 and 420, exactly 420, beyond
PathStarts == {Pos(0, 0), Pos(100 * PathUnit, 50 * PathUnit)}
PathReach ==
    {Pos(0, 0), Pos(30 * PathUnit, 40 * PathUnit), Pos(139 * PathUnit, 0), Pos(140 * PathUnit, 0),
     Pos(0, 140 * PathUnit), Pos(84 * PathUnit, 112 * PathUnit), Pos(140 * PathUnit, 1), Pos(140 * PathUnit + 1, 0),
     Pos(85 * PathUnit, 112 * PathUnit), Pos(150 * PathUnit, 0), Pos(0, 300 * PathUnit),
     Pos(180 * PathUnit, 240 * PathUnit), Pos(252 * PathUnit, 336 * PathUnit), Pos(420 * PathUnit, 0),
     Pos(300 * PathUnit, 400 * PathUnit), Pos(0, 600 * PathUnit), Pos(480 * PathUnit, 360 * PathUnit)}
Signs == {<<1, 1>>, <<1, -1>>, <<-1, 1>>, <<-1, -1>>}

LinkPathInit ==
    \E from \in PathStarts :
      \E reach \in PathReach :
        \E sign \in Signs :
          /\ pathEnds = <<from, VAdd(from, Pos(sign[1] * reach[1], sign[2] * reach[2]))>>
          /\ linkPath = Null
          /\ nodes = DefaultNodes
          /\ links = <<>>
          /\ storage = Null
          /\ ScriptStart

\* one call of buildLinkPath (lines 349 and 650)
BuildLinkPathCall ==
    /\ pathEnds # Null
    /\ linkPath = Null
    /\ linkPath' = buildLinkPath(pathEnds[1][1], pathEnds[1][2], pathEnds[2][1], pathEnds[2][2])
    /\ UNCHANGED <<modelVars, renderVars, viewVars, dragVars, userVars, modalVars, pathEnds>>

SpecLinkPath == LinkPathInit /\ [][BuildLinkPathCall]_vars

----------------------------------------------------------------------------
(* Graph vocabulary of the properties *)

NodeAt(id) == nodes[CHOOSE i \in DOMAIN nodes : nodes[i].id = id]
IsNode(id) == id \in NodeIds(nodes)
IsShelved(id) == IsNode(id) /\ NodeAt(id).status = "Shelved"

LinkEnds == {<<links[i].from, links[i].to>> : i \in DOMAIN links}

\* ids reached from the set S by one or more links
RECURSIVE ReachFrom(_, _)
ReachFrom(S, acc) ==
    LET next == {e[2] : e \in {d \in LinkEnds : d[1] \in S \cup acc}}
    IN IF next \subseteq acc THEN acc ELSE ReachFrom(S, acc \cup next)

Descendants(id) == ReachFrom({id}, {})

\* (totalsById.get(id) || { cost: 0, time: 0 })
TotalOf(id) == IF id \in DOMAIN totalsById THEN totalsById[id] ELSE Zero

PassDone == DOMAIN totalsById = NodeIds(nodes)

RECURSIVE SumTotals(_, _)
SumTotals(ids, i) ==
    IF i > Len(ids) THEN Zero
    ELSE LET rest == SumTotals(ids, i + 1)
         IN [cost |-> TotalOf(ids[i]).cost + rest.cost, time |-> TotalOf(ids[i]).time + rest.time]

ChildrenOf(id) == GetList(buildGraph(nodes, links).childrenMap, id)

\* number of links that enter id from a member of S
InDegreeFrom(S, id) == Cardinality({i \in DOMAIN links : links[i].to = id /\ links[i].from \in S})

----------------------------------------------------------------------------
(* C1 -- Rollup zero-cut: after a computeTotals pass every Shelved node has
   total {cost: 0, time: 0}, whatever its own and its descendants' estimates. *)
C1_ShelvedTotalIsZero ==
    PassDone => \A id \in NodeIds(nodes) : IsShelved(id) => totalsById[id] = Zero

\* a pass over a graph where a Shelved node with estimates of its own has a
\* child whose total is not zero
C1_Witness ==
    /\ PassDone
    /\ \E id \in NodeIds(nodes) :
         /\ IsShelved(id)
         /\ NodeAt(id).estimatedCost > 0 /\ NodeAt(id).estimatedTime > 0
         /\ \E c \in Range(ChildrenOf(id)) : TotalOf(c).cost > 0

(* C2 -- Rollup termination: computeTotals returns, without exhausting the call
   stack, a {cost, time} of two finite naturals for every node, on every graph:
   self-loops, longer cycles, duplicate links, several incoming edges. *)
C2_TotalsPassTerminates ==
    /\ ~threw
    /\ PassDone => \A id \in NodeIds(nodes) :
                      totalsById[id].cost \in Nat /\ totalsById[id].time \in Nat

\* a finished pass over a graph with a self-loop and a longer cycle among
\* nodes that are not Shelved
C2_Witness ==
    /\ PassDone /\ ~threw
    /\ \E id \in NodeIds(nodes) : ~IsShelved(id) /\ <<id, id>> \in LinkEnds
    /\ \E a, b \in NodeIds(nodes) :
         /\ a # b /\ ~IsShelved(a) /\ ~IsShelved(b)
         /\ <<a, b>> \in LinkEnds /\ <<b, a>> \in LinkEnds

(* C3 -- Rollup additivity.  A node is "plain" when it is not Shelved, has no
   Shelved descendant, and no id below it is entered by two links from the node
   or its descendants (no shared subtree). *)
Plain(id) ==
    /\ IsNode(id) /\ ~IsShelved(id)
    /\ \A d \in Descendants(id) : ~IsShelved(d)
    /\ \A d \in Descendants(id) : InDegreeFrom({id} \cup Descendants(id), d) = 1

Additive(id) ==
    LET s == SumTotals(ChildrenOf(id), 1)
    IN /\ totalsById[id].cost = NodeAt(id).estimatedCost + s.cost
       /\ totalsById[id].time = NodeAt(id).estimatedTime + s.time

\* C3 as claimed: every plain node is additive, cycles or not
C3_AdditiveOnEveryPlainNode ==
    PassDone => \A id \in NodeIds(nodes) : Plain(id) => Additive(id)

\* C3 as amended: every plain node that does not lie on a cycle (is not its own
\* descendant) has total = own estimates + the sum of its children's totals
C3_AdditiveOffCycles ==
    PassDone => \A id \in NodeIds(nodes) :
                   (Plain(id) /\ id \notin Descendants(id)) => Additive(id)

\* a plain node off every cycle with a child that has a child of its own,
\* after a pass
C3_Witness ==
    /\ PassDone
    /\ \E id \in NodeIds(nodes) :
         /\ Plain(id) /\ id \notin Descendants(id)
         /\ \E c \in Range(ChildrenOf(id)) : IsNode(c) /\ Len(ChildrenOf(c)) > 0
         /\ totalsById[id].cost > NodeAt(id).estimatedCost

(* C4 -- Shelved cuts upward only: the totals of a pass are those of the same
   pass over the graph without the links that enter a Shelved node, so nothing
   of a Shelved node or of what is reached only through it is in an ancestor's
   total, and every node below a Shelved node keeps its own full total; on the
   chain A->B->C with costs 100/50/25 and B Shelved, A = 100, B = 0, C = 25. *)
RECURSIVE SelectLinks(_, _)
SelectLinks(ls, i) ==
    IF i > Len(ls) THEN <<>>
    ELSE IF IsShelved(ls[i].to) THEN SelectLinks(ls, i + 1)
         ELSE <<ls[i]>> \o SelectLinks(ls, i + 1)

IsShelvedChain ==
    /\ Len(nodes) = 3
    /\ [i \in 1..3 |-> nodes[i].estimatedCost] = <<100, 50, 25>>
    /\ [i \in 1..3 |-> nodes[i].status] = <<"Considering", "Shelved", "Considering">>
    /\ [i \in DOMAIN links |-> <<links[i].from, links[i].to>>]
         = <<(<<nodes[1].id, nodes[2].id>>), (<<nodes[2].id, nodes[3].id>>)>>

C4_ShelvedCutsUpwardOnly ==
    PassDone =>
      /\ \A id \in NodeIds(nodes) :
           ~IsShelved(id) =>
              totalsById[id] = computeTotals(nodes, SelectLinks(links, 1)).totals[id]
      /\ IsShelvedChain =>
           [i \in 1..3 |-> totalsById[nodes[i].id].cost] = <<100, 0, 25>>

\* the pass over the chain A->B->C with B Shelved
C4_Witness == PassDone /\ IsShelvedChain

----------------------------------------------------------------------------
(* Vocabulary of the sizing and layout properties *)

RootId == getRootId(nodes, buildGraph(nodes, links).incomingMap)

\* the parents the breadth-first loops of render and computeLayout take off
\* their queue: the canonical root and everything below it
ReachedByBfs == IF RootId = NullId THEN {} ELSE {RootId} \cup Descendants(RootId)

Estimate(id) == estimateFor(totalsById, id)

\* the links with both ends among the nodes, in list order
WithoutDangling == FilterSeq(links, LAMBDA l : IsNode(l.from) /\ IsNode(l.to), 1)

HasDangling == \E i \in DOMAIN links : ~IsNode(links[i].from) \/ ~IsNode(links[i].to)

\* what render computes from the script's start for the link list ls
SizesFor(ls) == computeSizes(nodes, ls, computeTotals(nodes, ls).totals)
LayoutFor(ls) ==
    computeLayout(nodes, ls, SizesFor(ls), computeLayout(nodes, ls, SizesFor(ls), EmptyMap))

(* C5 -- Sizing monotonicity: after the sizing of render, for every parent the
   sizing loop reached and every two of its children a and b that are nodes,
   estimate(a) > estimate(b) implies radius(a) >= radius(b), where the
   estimate is total cost + total time * 100 and the radius the final one. *)
C5_SiblingRadiiFollowEstimates ==
    rendered =>
      \A parent \in ReachedByBfs :
        \A a, b \in Range(ChildrenOf(parent)) \cap NodeIds(nodes) :
          Estimate(a) > Estimate(b) => nodeSizes[a] >= nodeSizes[b]

(* C6 -- Layout determinism: the two computeLayout calls of one render (line
   527, then line 362 with nothing in between) give every node the same
   position. *)
C6_SecondLayoutEqualsFirst ==
    rendered => \A id \in NodeIds(nodes) : positions[id] = handlerPosition[id]

\* a render of a graph whose root is moved by the descent (a cycle leads back
\* to it) and that holds a locked node
C6_Witness ==
    /\ rendered
    /\ RootId \in Descendants(RootId)
    /\ positions[RootId] # ViewportCenter
    /\ \E i \in DOMAIN nodes : nodes[i].positionLocked

\* the handler that ran last is the mousemove handler, during a node drag
IsDragMove ==
    /\ events' = events + 1
    /\ lastEvent' = "mousemove"
    /\ isNodeDragging
    /\ draggedNodeId # NullId

\* the nodes of the moving subtree, as collected at the mousedown
MovingNodes == draggedSubtreeIds \cap NodeIds(nodes)

(* C7 -- Rigid subtree drag: every mousemove of a node drag puts each node of
   the moving subtree (collected at the mousedown) at its drag-start position
   plus one vector common to all of them, with positionLocked = true, and
   changes neither position nor positionLocked of any other node. *)
C7_DragMovesSubtreeRigidly ==
    [][ IsDragMove =>
          /\ \A id \in MovingNodes :
               /\ id \in DOMAIN dragStartPositions
               /\ FindNode(nodes', id).positionLocked
               /\ FindNode(nodes', id).position # Null
          /\ \A a, b \in MovingNodes :
               VSub(FindNode(nodes', a).position, dragStartPositions[a])
                 = VSub(FindNode(nodes', b).position, dragStartPositions[b])
          /\ \A id \in NodeIds(nodes) \ draggedSubtreeIds :
               /\ FindNode(nodes', id).position = FindNode(nodes, id).position
               /\ FindNode(nodes', id).positionLocked = FindNode(nodes, id).positionLocked
      ]_vars

(* C8 -- Locked exclusion: after every layout pass, also one that follows the
   adding or the removing of nodes and links, each node with positionLocked =
   true and a pinned position lies at node.position in the layout, whether it
   is the canonical root, an extra root or a child of a laid-out parent. *)
C8_LockedNodesStayPinned ==
    rendered =>
      \A i \in DOMAIN nodes :
        (nodes[i].positionLocked /\ nodes[i].position # Null)
            => positions[nodes[i].id] = nodes[i].position

\* a node was added or removed, and the layout pass that followed left a
\* locked child of a laid-out parent at the position the drag gave it
C8_Witness ==
    /\ rendered
    /\ lastEvent \in {"add root", "add child", "delete node"}
    /\ \E parent, a \in NodeIds(nodes) :
         /\ a # parent
         /\ <<parent, a>> \in LinkEnds
         /\ ~NodeAt(parent).positionLocked
         /\ NodeAt(a).positionLocked /\ NodeAt(a).position # Null
         /\ positions[a] = NodeAt(a).position

(* C9 -- Drag threshold: while a node is pressed, a mousemove to a point no
   more than 2px from the point of the mousedown on both axes changes no
   node's position and no node's positionLocked. *)
C9_MoveWithinThresholdChangesNothing ==
    [][ ( /\ IsDragMove
          /\ Abs(pointer'[1] - pressedAt[1]) <= 2 * Unit
          /\ Abs(pointer'[2] - pressedAt[2]) <= 2 * Unit )
        => \A i \in DOMAIN nodes :
             /\ nodes'[i].position = nodes[i].position
             /\ nodes'[i].positionLocked = nodes[i].positionLocked
      ]_vars

(* C10 -- Dangling links are ignored by sizing and layout: the radius and the
   position of every node are those of the model without its dangling links. *)
C10_DanglingLinksAreIgnored ==
    rendered =>
      \A id \in NodeIds(nodes) :
        /\ nodeSizes[id] = SizesFor(WithoutDangling)[id]
        /\ positions[id] = LayoutFor(WithoutDangling)[id]

(* C11 -- Root is largest: after the sizing of render on a graph with at least
   one node, the canonical root (the node getRootId returns) has radius
   ROOT_NODE_RADIUS and no node has a larger radius than the root. *)
C11_RootHasLargestRadius ==
    (rendered /\ RootId # NullId) =>
        /\ nodeSizes[RootId] = ROOT_NODE_RADIUS
        /\ \A id \in NodeIds(nodes) : nodeSizes[id] <= nodeSizes[RootId]

(* C12 -- Root placement: after each computeLayout pass of a render, the
   canonical root (the node getRootId returns), when it exists and is not
   locked, lies at the viewport center. *)
C12_UnlockedRootIsCentered ==
    (rendered /\ RootId # NullId /\ ~NodeAt(RootId).positionLocked) =>
        /\ handlerPosition[RootId] = ViewportCenter
        /\ positions[RootId] = ViewportCenter

\* the nodes no link enters
ZeroIncoming == {id \in NodeIds(nodes) : \A e \in LinkEnds : e[2] # id}

\* a node no link touches
Isolated(id) == \A e \in LinkEnds : e[1] # id /\ e[2] # id

\* a node other than the canonical root that no root leads to: isolated, or
\* entered by links but not below any node without incoming links
UnreachableFromRoots(id) ==
    /\ IsNode(id) /\ id # RootId
    /\ \/ Isolated(id)
       \/ id \notin ZeroIncoming /\ id \notin ReachFrom(ZeroIncoming, {})

(* C13 -- Orphans keep their seed: an unlocked node that is unreachable from
   every root (isolated, or entered only by links of cycles) lies, after the
   layout passes of a render, at the seed position its index gave it when it
   was first laid out. *)
C13_UnreachableNodesKeepSeed ==
    rendered =>
      \A i \in DOMAIN nodes :
        (UnreachableFromRoots(nodes[i].id) /\ ~nodes[i].positionLocked)
            => positions[nodes[i].id] = seedPosition(i - 1, Len(nodes))

\* the far ends of a list of links, in list order
ToEnds(ls) == [i \in DOMAIN ls |-> ls[i].to]
FromEnds(ls) == [i \in DOMAIN ls |-> ls[i].from]

\* the links that leave f, and those that enter t, in list order
LinksFrom(f) == SelectSeq(links, LAMBDA l : l.from = f)
LinksInto(t) == SelectSeq(links, LAMBDA l : l.to = t)

(* C14 -- buildGraph is a pure grouping of the links: childrenMap has a key
   for exactly the ids some link leaves, and its list for f is the "to" of the
   links with from = f in list order, duplicates kept; incomingMap has a key
   for exactly the ids some link enters, and its list for t is the "from" of
   the links with to = t in list order; and the passes that call buildGraph
   leave state.nodes and state.links as they were loaded. *)
C14_BuildGraphGroupsLinksInOrder ==
    LET g == buildGraph(nodes, links)
    IN /\ DOMAIN g.childrenMap = {links[i].from : i \in DOMAIN links}
       /\ \A f \in DOMAIN g.childrenMap : g.childrenMap[f] = ToEnds(LinksFrom(f))
       /\ DOMAIN g.incomingMap = {links[i].to : i \in DOMAIN links}
       /\ \A t \in DOMAIN g.incomingMap : g.incomingMap[t] = FromEnds(LinksInto(t))
       /\ storage = [nodes |-> nodes, links |-> links]

\* rendered with a duplicated link whose two copies have a link of another
\* parent between them, and two parents entering one node
C14_Witness ==
    /\ rendered
    /\ \E i, j, k \in DOMAIN links :
         /\ i < j /\ j < k
         /\ links[i].from = links[k].from /\ links[i].to = links[k].to
         /\ links[j].from # links[i].from
         /\ links[j].to = links[i].to

\* a step of deleteNode with a node selected
IsDelete == events' = events + 1 /\ lastEvent' = "delete node" /\ selectedNodeId # NullId

(* C15 -- deleteNode removes exactly the selected node and its links: after it
   state.nodes is the old list without the node whose id was selected, and
   state.links is the old list without every link that left or entered that
   id; every other node and link is unchanged and in its original order. *)
C15_DeleteRemovesNodeAndItsLinks ==
    [][ IsDelete =>
          /\ nodes' = SelectSeq(nodes, LAMBDA n : n.id # selectedNodeId)
          /\ links' = SelectSeq(links, LAMBDA l : l.from # selectedNodeId
                                                  /\ l.to # selectedNodeId)
          /\ selectedNodeId \notin NodeIds(nodes')
          /\ \A i \in DOMAIN links' : links'[i].from # selectedNodeId
                                      /\ links'[i].to # selectedNodeId ]_vars

\* add child (node 4 under node 1), add child (node 6 under node 4), delete:
\* node 6 and the link 4 -> 6 are gone, the link 1 -> 4 and the other four
\* nodes remain in order
C15_Witness ==
    /\ events = 3 /\ lastEvent = "delete node" /\ nextId = 8
    /\ IdsOf(nodes) = <<1, 2, 3, 4>>
    /\ Len(links) = 1 /\ links[1].from = 1 /\ links[1].to = 4

\* the vector between the endpoints of the call, its squared length, the
\* midpoint of the segment, and the control point's offset from the midpoint
\* (compared below up to 2/PathUnit pixel of rounding per coordinate)
PathVector == VSub(pathEnds[2], pathEnds[1])
PathLengthSquared == PathVector[1] * PathVector[1] + PathVector[2] * PathVector[2]
PathMidpoint == Pos((pathEnds[1][1] + pathEnds[2][1]) \div 2, (pathEnds[1][2] + pathEnds[2][2]) \div 2)
ControlOffset == VSub(linkPath.points[2], PathMidpoint)

\* each coordinate at most tol from the other's
Near(a, b, tol) == Abs(a[1] - b[1]) <= tol /\ Abs(a[2] - b[2]) <= tol

(* C16 -- Curve threshold of buildLinkPath: endpoints at Euclidean distance
   at most 140 px (exactly 140 and coincident endpoints included) give the
   straight path M p1 L p2; endpoints further apart give the curve
   M p1 Q c p2 whose control point c is the midpoint of the segment moved
   along the normal (-dy, dx)/distance by min(distance/3, 140): by
   (-dy, dx)/3 up to distance 420, and by a vector of length 140 on the same
   side beyond. *)
C16_LinkPathCurvesBeyondThreshold ==
    linkPath # Null =>
      IF PathLengthSquared <= (140 * PathUnit) * (140 * PathUnit)
      THEN linkPath = [cmd |-> "L", points |-> pathEnds]
      ELSE /\ linkPath.cmd = "Q"
           /\ Len(linkPath.points) = 3
           /\ linkPath.points[1] = pathEnds[1]
           /\ linkPath.points[3] = pathEnds[2]
           /\ IF PathLengthSquared <= (420 * PathUnit) * (420 * PathUnit)
              THEN Near(Pos(3 * ControlOffset[1], 3 * ControlOffset[2]),
                        Pos(0 - PathVector[2], PathVector[1]), 6)
              ELSE \* perpendicular to the segment, on the side of (-dy, dx),
                   \* and 140 px long
                   /\ Abs(ControlOffset[1] * PathVector[1] + ControlOffset[2] * PathVector[2])
                        <= 2 * (Abs(PathVector[1]) + Abs(PathVector[2]))
                   /\ ControlOffset[2] * PathVector[1] - ControlOffset[1] * PathVector[2] > 0
                   /\ Abs(hypot(ControlOffset[1], ControlOffset[2]) - 140 * PathUnit) <= 2

\* a call with endpoints exactly 140 px apart off the axes has returned
C16_Witness ==
    /\ linkPath # Null
    /\ PathLengthSquared = (140 * PathUnit) * (140 * PathUnit)
    /\ PathVector[1] # 0 /\ PathVector[2] # 0

\* the pointer's map point now minus its map point at the mousedown of the drag
PointerTravel == VSub(screenToMapPoint(pointer'), screenToMapPoint(pressedAt))

(* C17 -- Drag vector: at every mousemove of a node drag that finds the
   dragged node, also in a drag that begins right after another one ended
   with no render in between, each node of the moving subtree is put at its
   drag-start position plus the vector from the pointer's map point at the
   mousedown to the pointer's map point now. *)
C17_DragVectorIsPointerTravel ==
    [][ (IsDragMove /\ draggedNodeId \in NodeIds(nodes)) =>
          \A id \in MovingNodes \cap DOMAIN dragStartPositions :
            VSub(FindNode(nodes', id).position, dragStartPositions[id]) = PointerTravel
      ]_vars

\* totalFor(n) called first, with an empty memo table and an empty trail
EvaluatedFirst(id) == totalFor(nodes, buildGraph(nodes, links), EmptyMap, id, {}, 1)

(* C18 -- Order independence of the rollup: the total a full computeTotals
   pass reports for a node equals the total of that node evaluated first,
   with an empty memo table; so the reported totals do not depend on the
   order of state.nodes. *)
C18_TotalsDoNotDependOnOrder ==
    (PassDone /\ ~threw) =>
      \A id \in NodeIds(nodes) :
        ~EvaluatedFirst(id).threw => totalsById[id] = EvaluatedFirst(id).totals

\* no node is below itself
Acyclic == \A id \in NodeIds(nodes) : id \notin Descendants(id)

\* the link paths that start at id and have at most k links, each as the
\* sequence of the indices of its links in state.links
RECURSIVE PathsFrom(_, _)
PathsFrom(id, k) ==
    {<<>>} \cup
      (IF k = 0 THEN {}
       ELSE UNION { {<<i>> \o q : q \in PathsFrom(links[i].to, k - 1)} :
                    i \in {j \in DOMAIN links : links[j].from = id} })

\* the node a path from id ends in
PathEnd(id, path) == IF path = <<>> THEN id ELSE links[path[Len(path)]].to

\* the path from id passes only through nodes that exist and are not Shelved
CleanPath(id, path) ==
    /\ IsNode(id) /\ ~IsShelved(id)
    /\ \A i \in DOMAIN path : IsNode(links[path[i]].to) /\ ~IsShelved(links[path[i]].to)

CleanPathsFrom(id) == {path \in PathsFrom(id, Len(links)) : CleanPath(id, path)}

\* the sum of the estimatedCost of the ends of the paths of a set
RECURSIVE SumOfEndCosts(_, _)
SumOfEndCosts(id, paths) ==
    IF paths = {} THEN 0
    ELSE LET path == CHOOSE x \in paths : TRUE
         IN NodeAt(PathEnd(id, path)).estimatedCost + SumOfEndCosts(id, paths \ {path})

(* C19 -- Rollup as a sum over paths: on an acyclic graph the cost total of a
   node that is not Shelved is the sum, over every link path that starts at
   the node (the empty one included) and passes through no Shelved or absent
   node, of the estimatedCost of the node the path ends in; a descendant that
   k such paths reach is counted k times. *)
C19_CostIsSumOverPaths ==
    (PassDone /\ ~threw /\ Acyclic) =>
      \A id \in NodeIds(nodes) :
        ~IsShelved(id) => totalsById[id].cost = SumOfEndCosts(id, CleanPathsFrom(id))

\* a pass over an acyclic graph in which two paths from one node end in the
\* same node, and a third path ends in a Shelved or an absent node
C19_Witness ==
    /\ PassDone /\ ~threw /\ Acyclic
    /\ \E id \in NodeIds(nodes) :
         /\ \E p, q \in CleanPathsFrom(id) : p # q /\ PathEnd(id, p) = PathEnd(id, q)
         /\ \E p \in PathsFrom(id, Len(links)) : ~CleanPath(id, p)

\* every node is entered by at most one link, no node is below itself, and no
\* link dangles: each child is sized once, after its parent's radius is final
Forest ==
    /\ Acyclic
    /\ ~HasDangling
    /\ \A id \in NodeIds(nodes) : InDegreeFrom(NodeIds(nodes), id) <= 1

(* C20 -- Range of sibling sizing: in a hierarchy of any depth, the radius
   that sibling sizing gives a child lies between max(0.35 * parentRadius, 36)
   and 0.75 * parentRadius, parentRadius being the radius of the parent the
   child was sized under. *)
C20_SiblingRadiusWithinRange ==
    (rendered /\ Forest) =>
      \A i \in DOMAIN links :
        links[i].from \in ReachedByBfs =>
          /\ Max2((nodeSizes[links[i].from] * 35) \div 100, 36 * Unit) <= nodeSizes[links[i].to]
          /\ nodeSizes[links[i].to] <= (nodeSizes[links[i].from] * 75) \div 100

\* the distinct nodes with a link into id
ParentsOf(id) == {e[1] : e \in {d \in LinkEnds : d[2] = id}}

\* every node has at most one parent (which any number of links may connect
\* it to), no node is below itself, and no link dangles: each child is sized
\* under one parent, after that parent's radius is final
SingleParentHierarchy ==
    /\ Acyclic
    /\ ~HasDangling
    /\ \A id \in NodeIds(nodes) : Cardinality(ParentsOf(id)) <= 1

(* C21 -- Single child: when a parent reached by the sizing loop has exactly
   one distinct child node, that child's radius is the maximum of the range,
   0.75 * the parent's radius, however many links lead from the parent to it. *)
C21_SingleChildGetsMaximum ==
    (rendered /\ SingleParentHierarchy) =>
      \A parent \in ReachedByBfs :
        Cardinality(Range(ChildrenOf(parent))) = 1 =>
          \A child \in Range(ChildrenOf(parent)) :
            nodeSizes[child] = (nodeSizes[parent] * 75) \div 100

(* C22 -- collectDescendants: on every graph, cyclic or not, the call made at
   the mousedown on a node returns, and the set it returns is the pressed
   node's id together with exactly the ids that one or more links lead to
   from it. *)
C22_SubtreeIsReachableSet ==
    isNodeDragging =>
        draggedSubtreeIds = {draggedNodeId} \cup Descendants(draggedNodeId)

\* a pressed node on a cycle through another node, with a node that is not
\* below it
C22_Witness ==
    /\ isNodeDragging
    /\ draggedNodeId \in Descendants(draggedNodeId)
    /\ <<draggedNodeId, draggedNodeId>> \notin LinkEnds
    /\ \E id \in NodeIds(nodes) : id \notin draggedSubtreeIds
    /\ draggedSubtreeIds = {draggedNodeId} \cup Descendants(draggedNodeId)

\* the handler that runs in this step calls render()
RendersNow ==
    /\ events' = events + 1
    /\ \/ lastEvent' \in {"add root", "viewport click", "remove link", "form change"}
       \/ lastEvent' = "create link" /\ links' # links
       \/ lastEvent' \in {"add child", "delete node"} /\ selectedNodeId # NullId
       \/ lastEvent' = "node click" /\ ~didDragNode

(* C23 -- No layout pass during a drag: from a node mousedown
   (isNodeDragging = true) to the mouseup or mouseleave that follows, no
   handler calls render. *)
C23_NoRenderDuringDrag ==
    [][ isNodeDragging => ~RendersNow ]_vars

\* the mouseup or mouseleave handler runs in this step, during a node drag
IsDragEnd ==
    /\ events' = events + 1
    /\ lastEvent' \in {"mouseup", "mouseleave"}
    /\ isNodeDragging

(* C24 -- End of a drag: the mouseup, or the mouseleave, that ends a node
   drag saves the model as the drag left it (moved positions and locks) and
   clears the drag bookkeeping: isNodeDragging = false, draggedNodeId = null,
   no moving subtree, no drag-start positions; and a mousemove outside a node
   drag changes no node. *)
C24_DragEndSavesAndClears ==
    [][ /\ IsDragEnd =>
            /\ nodes' = nodes
            /\ storage' = [nodes |-> nodes, links |-> links]
            /\ ~isNodeDragging'
            /\ draggedNodeId' = NullId
            /\ draggedSubtreeIds' = {}
            /\ dragStartPositions' = EmptyMap
        /\ (events' = events + 1 /\ lastEvent' = "mousemove" /\ ~isNodeDragging) =>
            /\ nodes' = nodes
            /\ positions' = positions ]_vars

\* a drag moved and locked a node and ended, and the mouse moved again: the
\* model is still the one the end of the drag saved
C24_Witness ==
    /\ lastEvent = "mousemove"
    /\ ~isNodeDragging /\ draggedNodeId = NullId
    /\ draggedSubtreeIds = {} /\ dragStartPositions = EmptyMap
    /\ Len(nodes) = 3 /\ nextId = 4
    /\ storage = [nodes |-> nodes, links |-> links]
    /\ \E i \in DOMAIN nodes :
         /\ nodes[i].positionLocked
         /\ nodes[i].position # handlerPosition[nodes[i].id]

(* C25 -- Locks are durable: no handler turns positionLocked of a node from
   true to false (a node can only leave the model with its lock), and a
   handler that renders, like the render that opens the page, changes neither
   position nor positionLocked of any node that stays in the model. *)
C25_RenderKeepsLocksAndPositions ==
    [][ \A i \in DOMAIN nodes : \A j \in DOMAIN nodes' :
          nodes'[j].id = nodes[i].id =>
            /\ nodes[i].positionLocked => nodes'[j].positionLocked
            /\ (RendersNow \/ ~rendered) =>
                 /\ nodes'[j].position = nodes[i].position
                 /\ nodes'[j].positionLocked = nodes[i].positionLocked ]_vars

\* a drag moved and locked a node and ended, and a click on the viewport
\* rendered after it: the node is still locked, where the drag left it
C25_Witness ==
    /\ lastEvent = "viewport click"
    /\ rendered /\ ~isNodeDragging
    /\ \E i \in DOMAIN nodes :
         /\ nodes[i].positionLocked
         /\ nodes[i].position # Null
         /\ positions[nodes[i].id] = nodes[i].position
         /\ nodes[i].position # ViewportCenter

\* the node pressed last (a node mousedown selects it) and what moves with it
SubtreeOfSelected == {selectedNodeId} \cup Descendants(selectedNodeId)

\* a drag of the selected node has moved it and ended, nothing has rendered
\* since, and no node outside its moving subtree is locked
DragOfSelectedEnded ==
    /\ rendered /\ ~isNodeDragging
    /\ lastEvent \in {"mouseup", "mouseleave"}
    /\ IsNode(selectedNodeId)
    /\ NodeAt(selectedNodeId).positionLocked
    /\ \A i \in DOMAIN nodes : nodes[i].positionLocked => nodes[i].id \in SubtreeOfSelected

(* C26 -- A drag leaves the rest of the map alone: when a drag of a node has
   ended and the map is rendered again with the same nodes and links, every
   node outside the moving subtree of the dragged node is laid out where it
   was before the drag began (the drag itself does not move it). *)
C26_RenderAfterDragKeepsOthers ==
    [][ (DragOfSelectedEnded /\ RendersNow /\ rendered' /\ ~threw'
           /\ IdsOf(nodes') = IdsOf(nodes) /\ links' = links) =>
          \A id \in NodeIds(nodes) \ SubtreeOfSelected : positions'[id] = positions[id]
      ]_vars

(* C27 -- No dangling links: from a model without dangling links, after any
   sequence of adding nodes (roots or children), deleting nodes, opening and
   closing the link dialog, creating links and removing links, the from and
   the to of every link are ids of nodes of state.nodes. *)
C27_LinkEndsAreNodes ==
    \A i \in DOMAIN links : IsNode(links[i].from) /\ IsNode(links[i].to)

(* C28 -- No self-links: from a model without self-links, no sequence of
   adding nodes, creating links, deleting nodes and removing links gives a
   link whose from equals its to (cycles through two or more nodes and
   duplicated links do arise). *)
C28_NoSelfLinks ==
    \A i \in DOMAIN links : links[i].from # links[i].to

\* createLink has just made a link; the links now hold a duplicated link and a
\* cycle through two nodes
C28_Witness ==
    /\ lastEvent = "create link"
    /\ \E i, j \in DOMAIN links :
         i # j /\ links[i].from = links[j].from /\ links[i].to = links[j].to
    /\ \E a, b \in NodeIds(nodes) :
         a # b /\ <<a, b>> \in LinkEnds /\ <<b, a>> \in LinkEnds

====
